---- MODULE Spec2Model ----
(***************************************************************************)
(* The key/value HTTP server of src/src/server.go: a map[string]string     *)
(* guarded by one sync.RWMutex, read by the show handler (GET /entry/:key  *)
(* and GET /list) and written by the update handler (PUT                   *)
(* /entry/:key/:value).  net/http runs every request on its own goroutine; *)
(* a goroutine is a handler slot here, and a slot is reused for a later    *)
(* request once its handler has returned.                                  *)
(*                                                                         *)
(* sync.RWMutex is modelled as the Go runtime implements it: a writer that *)
(* has called Lock is announced at once and keeps later RLock calls        *)
(* waiting, it enters when the readers that hold the lock have left, and   *)
(* Unlock hands the read lock to every reader that waited.                 *)
(***************************************************************************)
EXTENDS Naturals, Sequences, FiniteSets, TLC

\* Number of requests served at the same time (goroutines alive at once).
NumHandlers == 2

Handlers == 1..NumHandlers

\* No handler: the free value of the writer slot and of lastHolder.
NoHandler == 0

\* Path segments used for ":key" and ":value".  update stores whatever
\* p.ByName("value") returns, so the empty string is among the values.
Keys == {"color", "missing"}
Vals == {"", "red", "blue"}

\* fmt prints a map with its keys sorted; the order of Keys as strings.
SortedKeys == <<"color", "missing">>

\* p.ByName("key") for a route without a ":key" segment (GET /list).
NoKey == ""

VARIABLES
    data,        \* s.data: the map, a function from the keys present to values
    w,           \* s.m: the writer that has called Lock and not yet Unlock
    active,      \* s.m: the handlers that hold the read lock
    pc,          \* per handler: where it is in show or update
    req,         \* per handler: the route's handler and its parameters
    seen,        \* per handler: what Fprintf has read of s.data so far
    resp,        \* per handler: the body written to its ResponseWriter
    committed,   \* history: per key, the value of the last set that unlocked
    lastHolder,  \* history: the handler whose set was the last to unlock
    line,        \* per handler: the request line, <<method, path segments>>
    status       \* per handler: the status code of its response

vars == <<data, w, active, pc, req, seen, resp, committed, lastHolder,
          line, status>>

\* No request is being served by the slot.
NoLine == <<>>

\* No response header has been written.
NoStatus == 0

\* The first Write to a ResponseWriter sends the header with 200 OK.
StatusOK == 200

NoReq == [kind |-> "none", key |-> NoKey, value |-> ""]

\* Variant: the store is created holding a sample entry.
EmptyMap_Seeded == [x \in {"color"} |-> "red"]

\* The empty map, map[string]string{}.
EmptyMap == [x \in {} |-> ""]

----------------------------------------------------------------------------
\* The map operations.

\* Variant: a missing key reads as a marker instead of the zero value.
Lookup_Marker(d, k) == IF k \in DOMAIN d THEN d[k] ELSE "<absent>"

\* s.data[k] in an expression: the zero value "" when k is not present.
Lookup(d, k) == IF k \in DOMAIN d THEN d[k] ELSE ""

\* Variant: a present key has v appended to its value instead of replaced.
Put_Append(d, k, v) ==
    [x \in (DOMAIN d) \cup {k} |->
        IF x = k THEN (IF k \in DOMAIN d THEN d[k] \o v ELSE v) ELSE d[x]]

\* Variant: the map is replaced by one that holds only the new entry.
Put_Only(d, k, v) == [x \in {k} |-> v]

\* Variant: storing the empty string deletes the key.
Put_DeleteEmpty(d, k, v) ==
    IF v = ""
    THEN [x \in (DOMAIN d) \ {k} |-> d[x]]
    ELSE [x \in (DOMAIN d) \cup {k} |-> IF x = k THEN v ELSE d[x]]

\* s.data[k] = v: insert k or replace its value.
Put(d, k, v) == [x \in (DOMAIN d) \cup {k} |-> IF x = k THEN v ELSE d[x]]

----------------------------------------------------------------------------
\* Rendering (fmt.Fprintf).

\* "Read entry: s.data[%s] = %s"
EntryBody(k, v) == "Read entry: s.data[" \o k \o "] = " \o v

\* Variant: the arguments of the format are given in the wrong order.
UpdatedBody_Swapped(k, v) == "Updated: s.data[" \o v \o "] = " \o k

\* "Updated: s.data[%s] = %s"
UpdatedBody(k, v) == "Updated: s.data[" \o k \o "] = " \o v

\* The pairs of a sequence of <<key, value>> whose key is k, in order.
PairsOf(pairs, k) == SelectSeq(pairs, LAMBDA p : p[1] = k)

RECURSIVE SortPairs(_, _)
\* fmt sorts the entries it collected by key before printing them.
SortPairs(pairs, i) ==
    IF i > Len(SortedKeys) THEN <<>>
    ELSE PairsOf(pairs, SortedKeys[i]) \o SortPairs(pairs, i + 1)

RECURSIVE JoinPairs(_)
\* %v of the entries of a map: "k:v" separated by one space.
JoinPairs(pairs) ==
    IF pairs = <<>> THEN ""
    ELSE pairs[1][1] \o ":" \o pairs[1][2]
         \o (IF Len(pairs) > 1 THEN " " ELSE "") \o JoinPairs(Tail(pairs))

\* "Read list: %v" of a map whose collected entries are pairs.
ListBody(pairs) == "Read list: map[" \o JoinPairs(SortPairs(pairs, 1)) \o "]"

\* The keys Fprintf has already visited.
SeenKeys(pairs) == {pairs[i][1] : i \in 1..Len(pairs)}

\* Variant: the visit of the map stops after its first entry.
Unvisited_StopEarly(d, pairs) == IF pairs = <<>> THEN DOMAIN d ELSE {}

\* The entries of the map Fprintf has still to visit.
Unvisited(d, pairs) == (DOMAIN d) \ SeenKeys(pairs)

----------------------------------------------------------------------------
\* sync.RWMutex.

\* Variant: RLock never waits (the read lock is not taken at all).
RLockBlocks_Never == FALSE

\* Variant: RLock also waits for other readers (a plain Mutex).
RLockBlocks_Exclusive == w # NoHandler \/ active # {}

\* RLock waits while a writer has called Lock and not yet Unlock.
RLockBlocks == w # NoHandler

\* Variant: Lock returns without waiting for the readers to leave.
WriterMayEnter_Always == TRUE

\* Lock returns once no reader holds the lock.
WriterMayEnter == active = {}

\* Variant: Lock does not exclude other writers.
WriterMutexFree_Always == TRUE

\* Lock first takes the writers' mutex: one writer at a time.
WriterMutexFree == w = NoHandler

\* Variant: Unlock wakes none of the readers that wait.
WaitingReaders_None == {}

\* The readers that wait in RLock.
WaitingReaders == {h \in Handlers : pc[h] = "rwait"}

----------------------------------------------------------------------------
\* The router (httprouter.New() with its defaults, and the routes of main).

\* The router answers 404 when no route has the path.
StatusNotFound == 404

\* The router answers 405 when only routes of other methods have the path.
StatusMethodNotAllowed == 405

\* The routes main registers.
Routes ==
    { [method |-> "GET", pattern |-> <<"entry", ":key">>, handler |-> "show"],
      [method |-> "GET", pattern |-> <<"list">>, handler |-> "show"],
      [method |-> "PUT", pattern |-> <<"entry", ":key", ":value">>,
       handler |-> "update"] }

\* A segment of a pattern with a leading colon matches any segment.
IsParam(seg) == seg \in {":key", ":value"}

\* The path has the pattern's segments, a parameter standing for any one.
PathMatches(pattern, path) ==
    /\ Len(pattern) = Len(path)
    /\ \A i \in 1..Len(path) : IsParam(pattern[i]) \/ pattern[i] = path[i]

\* The routes registered for method m that the path matches.
RoutesFor(m, path) ==
    {r \in Routes : r.method = m /\ PathMatches(r.pattern, path)}

\* The methods under which the path is registered.
Allowed(path) == {r.method : r \in {x \in Routes : PathMatches(x.pattern, path)}}

\* Variant: the router answers an unmatched request with 200.
RouterStatus_OK(m, path) == StatusOK

\* What the router answers to a request no route of method m matches.
RouterStatus(m, path) ==
    IF Allowed(path) = {} THEN StatusNotFound ELSE StatusMethodNotAllowed

\* The body http.NotFound and http.Error write.
RouterBody(code) ==
    IF code = StatusNotFound THEN "404 page not found" ELSE "Method Not Allowed"

\* Methods and paths of the requests that may reach no handler.
Methods == {"GET", "PUT"}
Paths == {<<"other">>, <<"list">>, <<"entry", "color", "red">>}

----------------------------------------------------------------------------
Init ==
    /\ data = EmptyMap
    /\ w = NoHandler
    /\ active = {}
    /\ pc = [h \in Handlers |-> "idle"]
    /\ req = [h \in Handlers |-> NoReq]
    /\ seen = [h \in Handlers |-> <<>>]
    /\ resp = [h \in Handlers |-> ""]
    /\ committed = [x \in {} |-> ""]
    /\ lastHolder = NoHandler
    /\ line = [h \in Handlers |-> NoLine]
    /\ status = [h \in Handlers |-> NoStatus]

\* r.GET("/entry/:key", show)
RouteGetEntry(h, k) ==
    /\ pc[h] = "idle"
    /\ req' = [req EXCEPT ![h] = [kind |-> "show", key |-> k, value |-> ""]]
    /\ pc' = [pc EXCEPT ![h] = "rlock"]
    /\ line' = [line EXCEPT ![h] = <<"GET", <<"entry", k>>>>]
    /\ UNCHANGED <<data, w, active, seen, resp, committed, lastHolder, status>>

\* r.GET("/list", show): the route has no ":key", ByName gives "".
RouteList(h) ==
    /\ pc[h] = "idle"
    /\ req' = [req EXCEPT ![h] = [kind |-> "show", key |-> NoKey, value |-> ""]]
    /\ pc' = [pc EXCEPT ![h] = "rlock"]
    /\ line' = [line EXCEPT ![h] = <<"GET", <<"list">>>>]
    /\ UNCHANGED <<data, w, active, seen, resp, committed, lastHolder, status>>

\* r.PUT("/entry/:key/:value", update)
RoutePut(h, k, v) ==
    /\ pc[h] = "idle"
    /\ req' = [req EXCEPT ![h] = [kind |-> "update", key |-> k, value |-> v]]
    /\ pc' = [pc EXCEPT ![h] = "lock"]
    /\ line' = [line EXCEPT ![h] = <<"PUT", <<"entry", k, v>>>>]
    /\ UNCHANGED <<data, w, active, seen, resp, committed, lastHolder, status>>

\* No route of the request's method matches its path: the router answers
\* itself and calls no handler.
RouteUnmatched(h, m, path) ==
    /\ pc[h] = "idle"
    /\ RoutesFor(m, path) = {}
    /\ line' = [line EXCEPT ![h] = <<m, path>>]
    /\ status' = [status EXCEPT ![h] = RouterStatus(m, path)]
    /\ resp' = [resp EXCEPT ![h] = RouterBody(RouterStatus(m, path))]
    /\ pc' = [pc EXCEPT ![h] = "done"]
    /\ UNCHANGED <<data, w, active, req, seen, committed, lastHolder>>

----------------------------------------------------------------------------
\* show

\* s.m.RLock(): take the read lock, or wait behind a writer.
ShowRLock(h) ==
    /\ pc[h] = "rlock"
    /\ IF RLockBlocks
       THEN /\ pc' = [pc EXCEPT ![h] = "rwait"]
            /\ UNCHANGED active
       ELSE /\ pc' = [pc EXCEPT ![h] = "read"]
            /\ active' = active \cup {h}
    /\ UNCHANGED <<data, w, req, seen, resp, committed, lastHolder, line, status>>

\* The argument s.data[k] of Fprintf, evaluated under the read lock.
ShowReadEntry(h) ==
    /\ pc[h] = "read"
    /\ req[h].key # NoKey
    /\ seen' = [seen EXCEPT ![h] = <<<<req[h].key, Lookup(data, req[h].key)>>>>]
    /\ pc' = [pc EXCEPT ![h] = "write"]
    /\ UNCHANGED <<data, w, active, req, resp, committed, lastHolder, line, status>>

\* Fprintf("%v", s.data) visits one more entry of the map, in any order.
ShowReadNext(h) ==
    /\ pc[h] = "read"
    /\ req[h].key = NoKey
    /\ \E k \in Unvisited(data, seen[h]) :
          seen' = [seen EXCEPT ![h] = Append(@, <<k, data[k]>>)]
    /\ UNCHANGED <<data, w, active, pc, req, resp, committed, lastHolder, line, status>>

\* Fprintf("%v", s.data) has visited every entry of the map.
ShowReadEnd(h) ==
    /\ pc[h] = "read"
    /\ req[h].key = NoKey
    /\ Unvisited(data, seen[h]) = {}
    /\ pc' = [pc EXCEPT ![h] = "write"]
    /\ UNCHANGED <<data, w, active, req, seen, resp, committed, lastHolder, line, status>>

\* Fprintf writes the formatted body to w, still under the read lock.
ShowWrite(h) ==
    /\ pc[h] = "write"
    /\ resp' = [resp EXCEPT ![h] =
                  IF req[h].key = NoKey
                  THEN ListBody(seen[h])
                  ELSE EntryBody(req[h].key, seen[h][1][2])]
    /\ pc' = [pc EXCEPT ![h] = "runlock"]
    /\ status' = [status EXCEPT ![h] = StatusOK]
    /\ UNCHANGED <<data, w, active, req, seen, committed, lastHolder, line>>

\* Variant: the list branch returns without s.m.RUnlock().
ShowRUnlock_Leak(h) ==
    /\ pc[h] = "runlock"
    /\ active' = IF req[h].key = NoKey THEN active ELSE active \ {h}
    /\ pc' = [pc EXCEPT ![h] = "idle"]
    /\ req' = [req EXCEPT ![h] = NoReq]
    /\ seen' = [seen EXCEPT ![h] = <<>>]
    /\ resp' = [resp EXCEPT ![h] = ""]
    /\ line' = [line EXCEPT ![h] = NoLine]
    /\ status' = [status EXCEPT ![h] = NoStatus]
    /\ UNCHANGED <<data, w, committed, lastHolder>>

\* s.m.RUnlock(), and show returns: its goroutine ends and the slot serves
\* the next request.
ShowRUnlock(h) ==
    /\ pc[h] = "runlock"
    /\ active' = active \ {h}
    /\ pc' = [pc EXCEPT ![h] = "idle"]
    /\ req' = [req EXCEPT ![h] = NoReq]
    /\ seen' = [seen EXCEPT ![h] = <<>>]
    /\ resp' = [resp EXCEPT ![h] = ""]
    /\ line' = [line EXCEPT ![h] = NoLine]
    /\ status' = [status EXCEPT ![h] = NoStatus]
    /\ UNCHANGED <<data, w, committed, lastHolder>>

----------------------------------------------------------------------------
\* update

\* s.m.Lock(), first half: take the writers' mutex and announce the writer.
UpdateLock(h) ==
    /\ pc[h] = "lock"
    /\ WriterMutexFree
    /\ w' = h
    /\ pc' = [pc EXCEPT ![h] = "wwait"]
    /\ UNCHANGED <<data, active, req, seen, resp, committed, lastHolder, line, status>>

\* s.m.Lock(), second half: return when the readers have left.
UpdateEnter(h) ==
    /\ pc[h] = "wwait"
    /\ WriterMayEnter
    /\ pc' = [pc EXCEPT ![h] = "store"]
    /\ UNCHANGED <<data, w, active, req, seen, resp, committed, lastHolder, line, status>>

\* s.data[k] = v
UpdateStore(h) ==
    /\ pc[h] = "store"
    /\ data' = Put(data, req[h].key, req[h].value)
    /\ pc' = [pc EXCEPT ![h] = "unlock"]
    /\ UNCHANGED <<w, active, req, seen, resp, committed, lastHolder, line, status>>

\* s.m.Unlock(): the readers that waited now hold the read lock.
UpdateUnlock(h) ==
    /\ pc[h] = "unlock"
    /\ w' = NoHandler
    /\ active' = active \cup WaitingReaders
    /\ pc' = [x \in Handlers |->
                IF x = h THEN "respond"
                ELSE IF x \in WaitingReaders THEN "read" ELSE pc[x]]
    /\ committed' = [x \in (DOMAIN committed) \cup {req[h].key} |->
                        IF x = req[h].key THEN req[h].value ELSE committed[x]]
    /\ lastHolder' = h
    /\ UNCHANGED <<data, req, seen, resp, line, status>>

\* Variant: the body reports the value stored for the key at that moment.
UpdateRespond_Stored(h) ==
    /\ pc[h] = "respond"
    /\ resp' = [resp EXCEPT ![h] =
                  UpdatedBody(req[h].key, Lookup(data, req[h].key))]
    /\ pc' = [pc EXCEPT ![h] = "done"]
    /\ status' = [status EXCEPT ![h] = StatusOK]
    /\ UNCHANGED <<data, w, active, req, seen, committed, lastHolder, line>>

\* Fprintf(w, "Updated: ...", k, v), after the lock is released.
UpdateRespond(h) ==
    /\ pc[h] = "respond"
    /\ resp' = [resp EXCEPT ![h] = UpdatedBody(req[h].key, req[h].value)]
    /\ pc' = [pc EXCEPT ![h] = "done"]
    /\ status' = [status EXCEPT ![h] = StatusOK]
    /\ UNCHANGED <<data, w, active, req, seen, committed, lastHolder, line>>

----------------------------------------------------------------------------
\* update has returned, or the router has answered: the goroutine ends and
\* the slot serves the next request.
Finish(h) ==
    /\ pc[h] = "done"
    /\ pc' = [pc EXCEPT ![h] = "idle"]
    /\ req' = [req EXCEPT ![h] = NoReq]
    /\ resp' = [resp EXCEPT ![h] = ""]
    /\ lastHolder' = IF lastHolder = h THEN NoHandler ELSE lastHolder
    /\ line' = [line EXCEPT ![h] = NoLine]
    /\ status' = [status EXCEPT ![h] = NoStatus]
    /\ UNCHANGED <<data, w, active, seen, committed>>

Next ==
    \E h \in Handlers :
        \/ \E k \in Keys : RouteGetEntry(h, k)
        \/ RouteList(h)
        \/ \E k \in Keys : \E v \in Vals : RoutePut(h, k, v)
        \/ \E m \in Methods : \E path \in Paths : RouteUnmatched(h, m, path)
        \/ ShowRLock(h)
        \/ ShowReadEntry(h)
        \/ ShowReadNext(h)
        \/ ShowReadEnd(h)
        \/ ShowWrite(h)
        \/ ShowRUnlock(h)
        \/ UpdateLock(h)
        \/ UpdateEnter(h)
        \/ UpdateStore(h)
        \/ UpdateUnlock(h)
        \/ UpdateRespond(h)
        \/ Finish(h)

Spec == Init /\ [][Next]_vars

\* A step of the handler that serves h's request, after the router's dispatch.
HandlerStep(h) ==
    \/ ShowRLock(h)
    \/ ShowReadEntry(h)
    \/ ShowReadNext(h)
    \/ ShowReadEnd(h)
    \/ ShowWrite(h)
    \/ ShowRUnlock(h)
    \/ UpdateEnter(h)
    \/ UpdateStore(h)
    \/ UpdateUnlock(h)
    \/ UpdateRespond(h)
    \/ Finish(h)

\* The Go scheduler runs every runnable goroutine, and sync.Mutex hands the
\* writers' mutex to a writer that keeps waiting for it (starvation mode).
\* Requests need not keep arriving: the routes are under no fairness.
FairSpec ==
    /\ Spec
    /\ \A h \in Handlers : WF_vars(HandlerStep(h)) /\ SF_vars(UpdateLock(h))

TypeOK ==
    /\ DOMAIN data \subseteq Keys
    /\ \A k \in DOMAIN data : data[k] \in Vals
    /\ w \in Handlers \cup {NoHandler}
    /\ active \subseteq Handlers
    /\ pc \in [Handlers -> {"idle", "rlock", "rwait", "read", "write", "runlock",
                            "lock", "wwait", "store", "unlock", "respond", "done"}]
----------------------------------------------------------------------------
\* Where a handler is.

\* h is between RLock and RUnlock.
InReadSection(h) == pc[h] \in {"read", "write", "runlock"}

\* h is between Lock and Unlock.
InWriteSection(h) == pc[h] \in {"store", "unlock"}

\* h is show for GET /entry/k and has evaluated s.data[k].
HasReadEntry(h) ==
    /\ req[h].kind = "show"
    /\ req[h].key # NoKey
    /\ pc[h] \in {"write", "runlock"}

\* h is show for GET /list and Fprintf has visited the whole map.
HasReadList(h) ==
    /\ req[h].kind = "show"
    /\ req[h].key = NoKey
    /\ pc[h] \in {"write", "runlock"}

\* h is update and its set has released the write lock.
HasSet(h) == req[h].kind = "update" /\ pc[h] \in {"respond", "done"}

----------------------------------------------------------------------------
\* C1: read-after-write visibility.  Once a set(k, v) has released the write
\* lock, a get(k) or a list that reads afterwards observes v for k, until
\* another set(k, _) completes: what a show handler has read, and the entry
\* body it has written, is for every key the value of the last completed set.
C1_ReadAfterWrite ==
    \A h \in Handlers : \A k \in DOMAIN committed :
        /\ (HasReadEntry(h) /\ req[h].key = k) =>
              /\ seen[h] = << <<k, committed[k]>> >>
              /\ pc[h] = "runlock" => resp[h] = EntryBody(k, committed[k])
        /\ HasReadList(h) =>
              \E i \in 1..Len(seen[h]) : seen[h][i] = <<k, committed[k]>>

\* A get of a key and a list, each having read after a set of a non-empty
\* value completed, while another request is in flight.
C1_Witness ==
    \E h \in Handlers : \E g \in Handlers \ {h} :
        /\ HasReadEntry(h)
        /\ req[h].key \in DOMAIN committed
        /\ committed[req[h].key] = "red"
        /\ pc[h] = "runlock"
        /\ HasReadList(g)

\* C2: two concurrent set(k, A) and set(k, B).  After both have completed,
\* and while no later set has, the value stored for k is one of A and B, the
\* one of the writer that released the write lock last, and that is the value
\* a get(k) reads.
C2_LastLockHolderWins ==
    \A u1 \in Handlers : \A u2 \in Handlers \ {u1} :
        ( /\ HasSet(u1) /\ HasSet(u2)
          /\ req[u1].key = req[u2].key
          /\ lastHolder \in {u1, u2} ) =>
            LET k == req[u1].key
                last == req[lastHolder].value
            IN  /\ (\A x \in Handlers : ~InWriteSection(x)) =>
                      /\ k \in DOMAIN data
                      /\ data[k] \in {req[u1].value, req[u2].value}
                      /\ data[k] = last
                /\ \A g \in Handlers :
                      (HasReadEntry(g) /\ req[g].key = k) => seen[g][1][2] = last

\* Both writers of the same key have completed, with different values.
C2_Witness ==
    \E u1 \in Handlers : \E u2 \in Handlers \ {u1} :
        /\ HasSet(u1) /\ HasSet(u2)
        /\ req[u1].key = req[u2].key
        /\ req[u1].value = "red" /\ req[u2].value = "blue"
        /\ lastHolder = u1
        /\ pc[u2] = "done"
        /\ pc[u1] = "respond"

\* C3: mutual exclusion.  At most one handler is inside the write section of
\* update, no handler is inside a read section of show while one is inside
\* the write section, and a handler that accesses s.data holds the lock in
\* the matching mode.
C3_MutualExclusion ==
    /\ Cardinality({h \in Handlers : InWriteSection(h)}) <= 1
    /\ \A h \in Handlers : \A g \in Handlers :
          InWriteSection(h) => ~InReadSection(g)
    /\ \A h \in Handlers : InWriteSection(h) => (w = h /\ active = {})
    /\ \A h \in Handlers : InReadSection(h) <=> h \in active

\* A writer is inside the write section while a reader waits in RLock.
C3_Witness ==
    \E h \in Handlers : \E g \in Handlers :
        /\ pc[h] = "store"
        /\ pc[g] = "rwait"

\* C4: a get of a key that has never been written does not fail and its body
\* shows an empty value; the body is the same as for a key whose stored value
\* is the empty string.
C4_AbsentRendersEmpty ==
    \A h \in Handlers :
        (HasReadEntry(h) /\ pc[h] = "runlock") =>
            LET k == req[h].key
                empty == "Read entry: s.data[" \o k \o "] = "
            IN  /\ k \notin DOMAIN committed => resp[h] = empty
                /\ (k \in DOMAIN committed /\ committed[k] = "") => resp[h] = empty

\* One get has answered for a key never written, another for a key whose
\* stored value is the empty string.
C4_Witness ==
    \E h \in Handlers : \E g \in Handlers :
        /\ HasReadEntry(h) /\ pc[h] = "runlock"
        /\ req[h].key \notin DOMAIN committed
        /\ HasReadEntry(g) /\ pc[g] = "runlock"
        /\ req[g].key \in DOMAIN committed
        /\ committed[req[g].key] = ""

C6_SetIdempotent ==
    [][ \A h \in Handlers :
          ( /\ pc[h] = "store" /\ pc'[h] = "unlock"
            /\ req[h].key \in DOMAIN data
            /\ data[req[h].key] = req[h].value ) =>
              /\ data' = data
              /\ \A k \in Keys : Lookup(data', k) = Lookup(data, k)
              /\ DOMAIN data' = DOMAIN data ]_vars

\* A set(k, v) has completed and update has stored the same (k, v) again.
C6_Witness ==
    \E h \in Handlers :
        /\ pc[h] = "unlock"
        /\ req[h].key \in DOMAIN committed
        /\ committed[req[h].key] = req[h].value
        /\ req[h].value = "red"

\* C7: after any sequence of completed sets, a list reports exactly one entry
\* per distinct key ever written, each with the value of the most recent set
\* of that key: no entry is duplicated or dropped.
C7_ListExactlyTheEntries ==
    \A h \in Handlers :
        HasReadList(h) =>
            /\ Len(seen[h]) = Cardinality(DOMAIN committed)
            /\ \A i \in 1..Len(seen[h]) : \A j \in 1..Len(seen[h]) :
                  seen[h][i][1] = seen[h][j][1] => i = j
            /\ \A k \in DOMAIN committed :
                  \E i \in 1..Len(seen[h]) : seen[h][i] = <<k, committed[k]>>
            /\ pc[h] = "runlock" =>
                  resp[h] = "Read list: map["
                            \o (IF "color" \in DOMAIN committed
                                THEN "color:" \o committed["color"] ELSE "")
                            \o (IF DOMAIN committed = {"color", "missing"}
                                THEN " " ELSE "")
                            \o (IF "missing" \in DOMAIN committed
                                THEN "missing:" \o committed["missing"] ELSE "")
                            \o "]"

\* A list has answered after set(color, red) and set(missing, blue).
C7_Witness ==
    \E h \in Handlers :
        /\ HasReadList(h) /\ pc[h] = "runlock"
        /\ DOMAIN committed = {"color", "missing"}
        /\ committed["color"] = "red" /\ committed["missing"] = "blue"
        /\ resp[h] = "Read list: map[color:red missing:blue]"

\* C8, as stated: PUT /entry/{key}/{value} answers
\* "Updated: data[{key}] = {value}" and GET /entry/{key} answers
\* "Read entry: data[{key}] = {value}".
C8_BodiesAsStated ==
    \A h \in Handlers :
        /\ (req[h].kind = "update" /\ pc[h] = "done") =>
              resp[h] = "Updated: data[" \o req[h].key \o "] = " \o req[h].value
        /\ (HasReadEntry(h) /\ pc[h] = "runlock") =>
              resp[h] = "Read entry: data[" \o req[h].key \o "] = "
                        \o Lookup(committed, req[h].key)

\* C8, amended: PUT /entry/{key}/{value} answers
\* "Updated: s.data[{key}] = {value}" and GET /entry/{key} answers
\* "Read entry: s.data[{key}] = {value}", the value empty for a missing key.
C8_BodiesOfTheCode ==
    \A h \in Handlers :
        /\ (req[h].kind = "update" /\ pc[h] = "done") =>
              resp[h] = "Updated: s.data[" \o req[h].key \o "] = " \o req[h].value
        /\ (HasReadEntry(h) /\ pc[h] = "runlock") =>
              resp[h] = "Read entry: s.data[" \o req[h].key \o "] = "
                        \o (IF req[h].key \in DOMAIN committed
                            THEN committed[req[h].key] ELSE "")

\* PUT /entry/color/red has answered, and GET /entry/color after it.
C8_Witness ==
    \E h \in Handlers : \E g \in Handlers :
        /\ req[h].kind = "update" /\ pc[h] = "done"
        /\ resp[h] = "Updated: s.data[color] = red"
        /\ HasReadEntry(g) /\ pc[g] = "runlock"
        /\ resp[g] = "Read entry: s.data[color] = red"

C10_ReadersDoNotBlockReaders ==
    \A h \in Handlers : pc[h] = "rwait" => w # NoHandler

\* Two show handlers hold the read lock at the same time.
C10_Witness ==
    \E h \in Handlers : \E g \in Handlers \ {h} :
        /\ InReadSection(h) /\ InReadSection(g)
        /\ {h, g} \subseteq active
        /\ w = NoHandler

----------------------------------------------------------------------------
\* The request line is one of the three shapes main registers.
IsRegistered(l) ==
    \/ l[1] = "GET" /\ Len(l[2]) = 2 /\ l[2][1] = "entry"
    \/ l[1] = "GET" /\ l[2] = <<"list">>
    \/ l[1] = "PUT" /\ Len(l[2]) = 3 /\ l[2][1] = "entry"

\* The path of the request line is registered under some method.
IsRegisteredPath(l) ==
    \E m \in {"GET", "PUT"} : IsRegistered(<<m, l[2]>>)

\* h serves a request that matches none of the three routes.
ServesUnmatched(h) == line[h] # NoLine /\ ~IsRegistered(line[h])

Running(h) == pc[h] \notin {"idle", "done"}

C13_Frame ==
    [][ /\ (\A h \in Handlers :
              (req[h].kind = "show" /\ (pc'[h] # pc[h] \/ seen'[h] # seen[h]))
                  => data' = data)
        /\ data' # data =>
              \E h \in Handlers :
                  /\ req[h].kind = "update"
                  /\ pc[h] = "store" /\ pc'[h] = "unlock"
        /\ \A h \in Handlers :
              (pc[h] = "store" /\ pc'[h] = "unlock") =>
                  /\ DOMAIN data' = (DOMAIN data) \cup {req[h].key}
                  /\ data'[req[h].key] = req[h].value
                  /\ \A k \in (DOMAIN data) \ {req[h].key} : data'[k] = data[k]
      ]_vars

\* An update has replaced the value of one key while the store held another.
C13_Witness ==
    \E h \in Handlers :
        /\ pc[h] = "unlock"
        /\ req[h].key = "color" /\ req[h].value = "blue"
        /\ "color" \in DOMAIN committed /\ committed["color"] = "red"
        /\ "missing" \in DOMAIN data /\ data["missing"] = "red"

\* h is about to write its response to the client (the I/O inside Fprintf).
AtResponseWrite(h) == pc[h] \in {"write", "respond"}

\* C14: no I/O step is performed between acquiring and releasing the read or
\* write lock: a handler that is about to write its response holds neither,
\* so a response write that stalls keeps no writer waiting in Lock.
C14_NoWriteUnderLock ==
    \A h \in Handlers :
        AtResponseWrite(h) =>
            /\ h \notin active
            /\ w # h
            /\ \A g \in Handlers : pc[g] = "wwait" => active = {}

\* The entries of the map d, as a set of <<key, value>>.
Entries(d) == {<<k, d[k]>> : k \in DOMAIN d}

\* The entries Fprintf has collected, as a set.
SeenEntries(h) == {seen[h][i] : i \in 1..Len(seen[h])}

\* C15: a list renders a consistent point-in-time snapshot.  While show holds
\* the read lock every entry it has collected is an entry of the store as it
\* is at that instant, and what it renders is the full contents of the store
\* at that instant, never a mix of the states before and after a set; a get
\* reads a whole value, the one stored at that instant.
C15_ListIsSnapshot ==
    \A h \in Handlers :
        /\ (req[h].kind = "show" /\ req[h].key = NoKey /\ InReadSection(h)) =>
              /\ SeenEntries(h) \subseteq Entries(data)
              /\ pc[h] \in {"write", "runlock"} => SeenEntries(h) = Entries(data)
              /\ pc[h] = "runlock" =>
                    \E order \in [1..Cardinality(DOMAIN data) -> Entries(data)] :
                        /\ \A i, j \in DOMAIN order : order[i] = order[j] => i = j
                        /\ resp[h] = ListBody(order)
        /\ HasReadEntry(h) =>
              /\ seen[h][1][2] \in Vals
              /\ seen[h][1][2] = Lookup(data, req[h].key)

\* A list has collected one of two entries while a writer waits in Lock.
C15_Witness ==
    \E h \in Handlers : \E g \in Handlers :
        /\ req[h].kind = "show" /\ req[h].key = NoKey /\ pc[h] = "read"
        /\ Len(seen[h]) = 1
        /\ Cardinality(DOMAIN data) = 2
        /\ pc[g] = "wwait" /\ req[g].value # data[req[g].key]

\* C16: the key set of the store only grows.  No step removes a key, a key
\* whose set has completed is present in every later state, and every stored
\* value is the value of the last completed set of its key (or, until its
\* Unlock, of the set that holds the write lock and has just stored it).
C16_KeysOnlyGrow ==
    /\ [][ /\ DOMAIN data \subseteq DOMAIN data'
           /\ DOMAIN committed \subseteq DOMAIN committed' ]_vars
    /\ [](DOMAIN committed \subseteq DOMAIN data)
    /\ [](\A k \in DOMAIN data :
            \/ k \in DOMAIN committed /\ data[k] = committed[k]
            \/ \E h \in Handlers :
                  /\ pc[h] = "unlock" /\ w = h
                  /\ req[h].key = k /\ req[h].value = data[k])

\* A key with a completed set has been given the empty string and is still
\* present.
C16_Witness ==
    \E h \in Handlers :
        /\ pc[h] = "respond"
        /\ req[h].value = ""
        /\ req[h].key \in DOMAIN data
        /\ data[req[h].key] = ""
        /\ Cardinality(DOMAIN data) = 2

\* C17: update writes its response only after it has released the write
\* lock, and the body reports the request's own key and value, whatever the
\* store holds by then: with concurrent PUTs of one key the body can name a
\* value that is no longer stored.
C17_UpdateAnswersAfterUnlock ==
    \A h \in Handlers :
        req[h].kind = "update" =>
            /\ pc[h] \in {"lock", "wwait", "store", "unlock", "respond"} =>
                  (resp[h] = "" /\ status[h] = NoStatus)
            /\ pc[h] \in {"respond", "done"} => w # h
            /\ pc[h] = "done" =>
                  resp[h] = "Updated: s.data[" \o line[h][2][2] \o "] = "
                            \o line[h][2][3]

\* PUT /entry/color/red has answered "red" while the store holds "blue",
\* written by a later PUT that has completed.
C17_Witness ==
    \E h \in Handlers : \E g \in Handlers \ {h} :
        /\ pc[h] = "done"
        /\ resp[h] = "Updated: s.data[color] = red"
        /\ HasSet(g)
        /\ data["color"] = "blue"
        /\ lastHolder = g

\* C18: show dispatches on the key parameter.  It lists the map if and only
\* if the key is the empty string, as for GET /list, and otherwise reads the
\* entry of exactly that key; each call takes the read lock once, after it
\* was called, and releases it once, when it returns.
C18_ShowDispatch ==
    /\ [](\A h \in Handlers :
            req[h].kind = "show" =>
                /\ req[h].key = NoKey <=> line[h] = <<"GET", <<"list">>>>
                /\ req[h].key # NoKey => line[h] = <<"GET", <<"entry", req[h].key>>>>
                /\ (req[h].key # NoKey /\ pc[h] \in {"write", "runlock"}) =>
                      /\ Len(seen[h]) = 1
                      /\ seen[h][1][1] = req[h].key
                /\ (req[h].key # NoKey /\ pc[h] = "runlock") =>
                      resp[h] = EntryBody(req[h].key, seen[h][1][2])
                /\ (req[h].key = NoKey /\ pc[h] = "runlock") =>
                      resp[h] = ListBody(seen[h])
                /\ (req[h].key = NoKey /\ InReadSection(h)) =>
                      \A i \in 1..Len(seen[h]) : seen[h][i][1] \in Keys)
    /\ [][ \A h \in Handlers :
             /\ (h \notin active /\ h \in active') =>
                   (pc[h] \in {"rlock", "rwait"} /\ pc'[h] = "read")
             /\ (h \in active /\ h \notin active') =>
                   (pc[h] = "runlock" /\ pc'[h] = "idle")
             /\ (req[h].kind = "show" /\ pc[h] # "idle" /\ pc'[h] = "idle") =>
                   (h \in active /\ h \notin active')
             /\ (pc[h] \in {"rlock", "rwait"} /\ pc'[h] \notin {"rlock", "rwait"}) =>
                   (h \notin active /\ h \in active') ]_vars

\* A list and a get hold the read lock together, each having read.
C18_Witness ==
    \E h \in Handlers : \E g \in Handlers :
        /\ HasReadList(h) /\ Len(seen[h]) = 2
        /\ HasReadEntry(g) /\ req[g].key = "missing"
        /\ {h, g} \subseteq active

====
